---- MODULE Spec2Model ----
(***************************************************************************)
(* Zoom attendance tracker (src/attendance_app.py): the in-memory          *)
(* attendance_log, the webhook handler that feeds log_join / log_leave,    *)
(* the duration calculator, the aggregator and the report / logs / clear   *)
(* endpoints.                                                              *)
(*                                                                         *)
(* Spec      handlers run one at a time (each handler is one step).        *)
(* SpecConc  the webhook handler (event loop) interleaves, statement by    *)
(*           statement, with the endpoints declared with plain "def"       *)
(*           (report, get_logs, clear_logs), which the server runs on      *)
(*           worker threads; the code takes no lock.                       *)
(***************************************************************************)
EXTENDS Integers, Sequences, FiniteSets, TLC

VARIABLES attendance_log, last, ev, th

vars == <<attendance_log, last, ev, th>>

(* Bound on the number of records the model lets the store hold. *)
MaxLog == 3

(* The same bound for the statement-level specification. *)
MaxLogConc == 2

(* The same bound for the specification of whole webhook bodies. *)
MaxLogHook == 2

(* Python's None (leave_time of an open record, a missing payload field,   *)
(* the value a function without a return statement gives back).            *)
None == "None"

(* ------------------------------------------------------------------ *)
(* Input values                                                       *)
(* ------------------------------------------------------------------ *)
Meetings == {"M1", "M2"}
Users == {"U1", "U2"}
(* The display name each participant's events carry. *)
NameOf(user_id) == IF user_id = "U1" THEN "Alice" ELSE "Bob"

T1000Z == "2024-01-01T10:00:00Z"
T1030Z == "2024-01-01T10:30:00Z"
T1030Naive == "2024-01-01T10:30:00"
TBad == "not-a-time"

JoinTimes == {T1000Z}
LeaveTimes == {T1030Z, T1030Naive}

JOINED == "meeting.participant_joined"
LEFT == "meeting.participant_left"
STARTED == "meeting.started"

(* ------------------------------------------------------------------ *)
(* calculate_duration                                                 *)
(* ------------------------------------------------------------------ *)

(* str.replace("Z", "+00:00") on the timestamps of the model. *)
replace_Z(s) ==
    CASE s = "2024-01-01T10:00:00Z" -> "2024-01-01T10:00:00+00:00"
      [] s = "2024-01-01T10:30:00Z" -> "2024-01-01T10:30:00+00:00"
      [] OTHER -> s

(* datetime.fromisoformat: the parsed datetime (minutes since midnight of  *)
(* 2024-01-01, and whether it carries a UTC offset), or ValueError.        *)
fromisoformat(s) ==
    CASE s = "2024-01-01T10:00:00+00:00" -> [raised |-> "none", aware |-> TRUE, min |-> 600]
      [] s = "2024-01-01T10:30:00+00:00" -> [raised |-> "none", aware |-> TRUE, min |-> 630]
      [] s = "2024-01-01T10:00:00" -> [raised |-> "none", aware |-> FALSE, min |-> 600]
      [] s = "2024-01-01T10:30:00" -> [raised |-> "none", aware |-> FALSE, min |-> 630]
      [] OTHER -> [raised |-> "ValueError", aware |-> FALSE, min |-> 0]

(* calculate_duration(join_time, leave_time): minutes, 0 when a parse      *)
(* raises ValueError (caught); subtracting an offset-naive from an         *)
(* offset-aware datetime raises TypeError, which the except clause does    *)
(* not name.                                                               *)
calculate_duration(join_time, leave_time) ==
    LET j == fromisoformat(replace_Z(join_time))
        l == fromisoformat(replace_Z(leave_time))
    IN  IF j.raised # "none" \/ l.raised # "none"
        THEN [raised |-> "none", value |-> 0]
        ELSE IF j.aware # l.aware
        THEN [raised |-> "TypeError", value |-> 0]
        ELSE [raised |-> "none", value |-> l.min - j.min]

(* ------------------------------------------------------------------ *)
(* log_join / log_leave                                               *)
(* ------------------------------------------------------------------ *)

(* The dict log_join builds.  "timestamp" is datetime.now().isoformat():   *)
(* the wall clock is not read by any other code, so one value stands for   *)
(* it.                                                                     *)
log_entry_left_at_join(meeting_id, user_id, user_name, join_time) ==
    [event |-> "joined", meeting_id |-> meeting_id, user_id |-> user_id,
     user_name |-> user_name, join_time |-> join_time, leave_time |-> join_time,
     timestamp |-> "now"]

log_entry(meeting_id, user_id, user_name, join_time) ==
    [event |-> "joined", meeting_id |-> meeting_id, user_id |-> user_id,
     user_name |-> user_name, join_time |-> join_time, leave_time |-> None,
     timestamp |-> "now"]

log_join_twice(log, meeting_id, user_id, user_name, join_time) ==
    [log |-> Append(Append(log, log_entry(meeting_id, user_id, user_name, join_time)),
                    log_entry(meeting_id, user_id, user_name, join_time)),
     printed |-> {"JOIN"}, raised |-> "none", ret |-> None]

log_join_prepend(log, meeting_id, user_id, user_name, join_time) ==
    [log |-> <<log_entry(meeting_id, user_id, user_name, join_time)>> \o log,
     printed |-> {"JOIN"}, raised |-> "none", ret |-> None]

log_join(log, meeting_id, user_id, user_name, join_time) ==
    [log |-> Append(log, log_entry(meeting_id, user_id, user_name, join_time)),
     printed |-> {"JOIN"}, raised |-> "none", ret |-> None]

is_open_join_any_user(entry, meeting_id, user_id) ==
    /\ entry.event = "joined"
    /\ entry.meeting_id = meeting_id
    /\ entry.leave_time = None

is_open_join_any_state(entry, meeting_id, user_id) ==
    /\ entry.meeting_id = meeting_id
    /\ entry.user_id = user_id

(* The condition of the if in log_leave's loop. *)
is_open_join(entry, meeting_id, user_id) ==
    /\ entry.event = "joined"
    /\ entry.meeting_id = meeting_id
    /\ entry.user_id = user_id
    /\ entry.leave_time = None

RECURSIVE forward_scan(_, _, _, _)
forward_scan(log, k, meeting_id, user_id) ==
    IF k = 0 THEN 0
    ELSE LET first == forward_scan(log, k - 1, meeting_id, user_id)
         IN  IF first # 0 THEN first
             ELSE IF is_open_join(log[k], meeting_id, user_id) THEN k
             ELSE 0

RECURSIVE scan_down(_, _, _, _)
scan_down(log, k, meeting_id, user_id) ==
    IF k = 0 THEN 0
    ELSE IF is_open_join(log[k], meeting_id, user_id) THEN k
    ELSE scan_down(log, k - 1, meeting_id, user_id)

reversed_scan_skips_latest(log, k, meeting_id, user_id) ==
    IF k = 0 THEN 0 ELSE scan_down(log, k - 1, meeting_id, user_id)

(* for entry in reversed(attendance_log): the index of the first entry,    *)
(* from position k downwards, that satisfies the condition; 0 if none.     *)
RECURSIVE reversed_scan(_, _, _, _)
reversed_scan(log, k, meeting_id, user_id) ==
    IF k = 0 THEN 0
    ELSE IF is_open_join(log[k], meeting_id, user_id) THEN k
    ELSE reversed_scan(log, k - 1, meeting_id, user_id)

log_leave_no_return(log, meeting_id, user_id, leave_time) ==
    LET i == reversed_scan(log, Len(log), meeting_id, user_id)
    IN  IF i = 0
        THEN [log |-> log, printed |-> {"WARN_NO_MATCHING_JOIN"},
              raised |-> "none", ret |-> None]
        ELSE LET closed == [log EXCEPT ![i].leave_time = leave_time,
                                       ![i].event = "left"]
                 d == calculate_duration(log[i].join_time, leave_time)
             IN  IF d.raised # "none"
                 THEN [log |-> closed, printed |-> {}, raised |-> d.raised,
                       ret |-> None]
                 ELSE [log |-> closed,
                       printed |-> {"LEAVE", "DURATION", "WARN_NO_MATCHING_JOIN"},
                       raised |-> "none", ret |-> None]

log_leave_creates_record(log, meeting_id, user_id, leave_time) ==
    LET i == reversed_scan(log, Len(log), meeting_id, user_id)
    IN  IF i = 0
        THEN [log |-> Append(log, [event |-> "left", meeting_id |-> meeting_id,
                                   user_id |-> user_id, user_name |-> None,
                                   join_time |-> None, leave_time |-> leave_time,
                                   timestamp |-> "now"]),
              printed |-> {"WARN_NO_MATCHING_JOIN"},
              raised |-> "none", ret |-> None]
        ELSE [log |-> [log EXCEPT ![i].leave_time = leave_time, ![i].event = "left"],
              printed |-> {"LEAVE", "DURATION"}, raised |-> "none", ret |-> None]

(* log_leave: the entry found is closed (leave_time, then event) before    *)
(* the duration is computed; a TypeError from calculate_duration leaves    *)
(* the function after the two assignments and before the prints.           *)
log_leave(log, meeting_id, user_id, leave_time) ==
    LET i == reversed_scan(log, Len(log), meeting_id, user_id)
    IN  IF i = 0
        THEN [log |-> log, printed |-> {"WARN_NO_MATCHING_JOIN"},
              raised |-> "none", ret |-> None]
        ELSE LET closed == [log EXCEPT ![i].leave_time = leave_time,
                                       ![i].event = "left"]
                 d == calculate_duration(log[i].join_time, leave_time)
             IN  IF d.raised # "none"
                 THEN [log |-> closed, printed |-> {}, raised |-> d.raised,
                       ret |-> None]
                 ELSE [log |-> closed, printed |-> {"LEAVE", "DURATION"},
                       raised |-> "none", ret |-> None]

(* ------------------------------------------------------------------ *)
(* calculate_durations                                                *)
(* ------------------------------------------------------------------ *)

(* Python truthiness of a str-or-None field. *)
truthy(x) == x # None /\ x # ""

(* Position of user_id among the keys of the dict (0 when absent); the     *)
(* dict keeps its keys in insertion order.                                 *)
RECURSIVE key_index(_, _, _)
key_index(durations, k, user_id) ==
    IF k = 0 THEN 0
    ELSE IF durations[k].user_id = user_id THEN k
    ELSE key_index(durations, k - 1, user_id)

durations_step_any_meeting(acc, entry, meeting_id) ==
    IF acc.raised # "none" THEN acc
    ELSE IF ~(truthy(entry.join_time) /\ truthy(entry.leave_time))
    THEN acc
    ELSE LET d == calculate_duration(entry.join_time, entry.leave_time)
             k == key_index(acc.durations, Len(acc.durations), entry.user_id)
             withKey == IF k = 0
                        THEN Append(acc.durations,
                                    [user_id |-> entry.user_id,
                                     user_name |-> entry.user_name,
                                     total_minutes |-> 0, sessions |-> 0])
                        ELSE acc.durations
             p == IF k = 0 THEN Len(withKey) ELSE k
         IN  IF d.raised # "none"
             THEN [raised |-> d.raised, durations |-> acc.durations]
             ELSE [raised |-> "none",
                   durations |->
                       [withKey EXCEPT ![p].total_minutes = @ + d.value,
                                       ![p].sessions = @ + 1]]

durations_step_last_name(acc, entry, meeting_id) ==
    IF acc.raised # "none" THEN acc
    ELSE IF ~(entry.meeting_id = meeting_id /\ truthy(entry.join_time)
                /\ truthy(entry.leave_time))
    THEN acc
    ELSE LET d == calculate_duration(entry.join_time, entry.leave_time)
             k == key_index(acc.durations, Len(acc.durations), entry.user_id)
             withKey == IF k = 0
                        THEN Append(acc.durations,
                                    [user_id |-> entry.user_id,
                                     user_name |-> entry.user_name,
                                     total_minutes |-> 0, sessions |-> 0])
                        ELSE acc.durations
             p == IF k = 0 THEN Len(withKey) ELSE k
         IN  IF d.raised # "none"
             THEN [raised |-> d.raised, durations |-> acc.durations]
             ELSE [raised |-> "none",
                   durations |->
                       [withKey EXCEPT ![p].total_minutes = @ + d.value,
                                       ![p].sessions = @ + 1,
                                       ![p].user_name = entry.user_name]]

(* One iteration of the loop of calculate_durations on entry, with the     *)
(* dict so far in acc.durations. acc.raised carries a propagating error.   *)
durations_step(acc, entry, meeting_id) ==
    IF acc.raised # "none" THEN acc
    ELSE IF ~(entry.meeting_id = meeting_id /\ truthy(entry.join_time)
                /\ truthy(entry.leave_time))
    THEN acc
    ELSE LET d == calculate_duration(entry.join_time, entry.leave_time)
             k == key_index(acc.durations, Len(acc.durations), entry.user_id)
             withKey == IF k = 0
                        THEN Append(acc.durations,
                                    [user_id |-> entry.user_id,
                                     user_name |-> entry.user_name,
                                     total_minutes |-> 0, sessions |-> 0])
                        ELSE acc.durations
             p == IF k = 0 THEN Len(withKey) ELSE k
         IN  IF d.raised # "none"
             THEN [raised |-> d.raised, durations |-> acc.durations]
             ELSE [raised |-> "none",
                   durations |->
                       [withKey EXCEPT ![p].total_minutes = @ + d.value,
                                       ![p].sessions = @ + 1]]

RECURSIVE durations_loop(_, _, _)
durations_loop(log, n, meeting_id) ==
    IF n = 0 THEN [raised |-> "none", durations |-> <<>>]
    ELSE durations_step(durations_loop(log, n - 1, meeting_id), log[n], meeting_id)

calculate_durations(log, meeting_id) == durations_loop(log, Len(log), meeting_id)

(* ------------------------------------------------------------------ *)
(* State                                                              *)
(* ------------------------------------------------------------------ *)

(* What the last handler was called with and what it gave back:            *)
(*   handler  the endpoint; call  the core function it called, if any;     *)
(*   printed  the notifications printed by the core function;              *)
(*   raised   the exception that left the core function, "none" if none;   *)
(*   ret      the value the core function / endpoint returned;             *)
(*   status   the HTTP status of the response.                             *)
Idle == [pc |-> "idle"]

NoCall == [handler |-> "none", event |-> None, call |-> "none",
           meeting_id |-> None, user_id |-> None, user_name |-> None,
           time |-> None, printed |-> {}, raised |-> "none", ret |-> None,
           status |-> 0]

Init ==
    /\ attendance_log = <<>>
    /\ last = NoCall
    /\ ev = Idle
    /\ th = Idle

Quiescent == ev = Idle /\ th = Idle

(* ------------------------------------------------------------------ *)
(* Handlers, one step each                                            *)
(* ------------------------------------------------------------------ *)

webhook_dispatch_unchecked(log, event, meeting_id, user_id, user_name, time) ==
    LET base == [NoCall EXCEPT !.handler = "zoom_webhook", !.event = event,
                               !.meeting_id = meeting_id, !.user_id = user_id,
                               !.user_name = user_name, !.time = time,
                               !.status = 200]
        r == IF event = JOINED
             THEN log_join(log, meeting_id, user_id, user_name, time)
             ELSE log_leave(log, meeting_id, user_id, time)
    IN  IF event \in {JOINED, LEFT}
        THEN [log |-> r.log,
              last |-> [base EXCEPT
                  !.call = IF event = JOINED THEN "log_join" ELSE "log_leave",
                  !.printed = r.printed, !.raised = r.raised, !.ret = r.ret,
                  !.status = IF r.raised = "none" THEN 200 ELSE 500]]
        ELSE [log |-> log, last |-> [base EXCEPT !.printed = {"UNHANDLED_EVENT"}]]

(* The dispatch of zoom_webhook on the event type and the timestamp, with  *)
(* meeting_id, user_id and user_name already extracted from the payload.   *)
(* An exception leaving log_leave is caught by "except Exception" and      *)
(* answered with status 500.                                               *)
webhook_dispatch(log, event, meeting_id, user_id, user_name, time) ==
    LET base == [NoCall EXCEPT !.handler = "zoom_webhook", !.event = event,
                               !.meeting_id = meeting_id, !.user_id = user_id,
                               !.user_name = user_name, !.time = time,
                               !.status = 200]
        r == IF event = JOINED
             THEN log_join(log, meeting_id, user_id, user_name, time)
             ELSE log_leave(log, meeting_id, user_id, time)
    IN  IF event \in {JOINED, LEFT} /\ truthy(time)
        THEN [log |-> r.log,
              last |-> [base EXCEPT
                  !.call = IF event = JOINED THEN "log_join" ELSE "log_leave",
                  !.printed = r.printed, !.raised = r.raised, !.ret = r.ret,
                  !.status = IF r.raised = "none" THEN 200 ELSE 500]]
        ELSE [log |-> log,
              last |-> [base EXCEPT !.printed =
                  IF event = JOINED THEN {"WARN_NO_JOIN_TIME"}
                  ELSE IF event = LEFT THEN {"WARN_NO_LEAVE_TIME"}
                  ELSE {"UNHANDLED_EVENT"}]]

zoom_webhook(event, meeting_id, user_id, user_name, time) ==
    /\ Quiescent
    /\ (event = JOINED /\ truthy(time)) => Len(attendance_log) < MaxLog
    /\ LET r == webhook_dispatch(attendance_log, event, meeting_id, user_id,
                                 user_name, time)
       IN  /\ attendance_log' = r.log
           /\ last' = r.last
    /\ UNCHANGED <<ev, th>>

(* report(meeting_id): an exception leaving calculate_durations is         *)
(* answered by the server with status 500.                                 *)
report_result(log, meeting_id) ==
    LET r == calculate_durations(log, meeting_id)
    IN  [NoCall EXCEPT !.handler = "report", !.call = "calculate_durations",
                       !.meeting_id = meeting_id, !.raised = r.raised,
                       !.ret = IF r.raised # "none" THEN <<>>
                               ELSE <<[meeting_id |-> meeting_id,
                                       attendance |-> r.durations,
                                       total_participants |-> Len(r.durations)]>>,
                       !.status = IF r.raised = "none" THEN 200 ELSE 500]

report(meeting_id) ==
    /\ last' = report_result(attendance_log, meeting_id)
    /\ UNCHANGED <<attendance_log, ev, th>>

(* get_logs(meeting_id): the filtered list, or the whole list when the     *)
(* argument is None (or empty).                                            *)
RECURSIVE filter_meeting(_, _)
filter_meeting(log, meeting_id) ==
    IF log = <<>> THEN <<>>
    ELSE IF Head(log).meeting_id = meeting_id
    THEN <<Head(log)>> \o filter_meeting(Tail(log), meeting_id)
    ELSE filter_meeting(Tail(log), meeting_id)

get_logs_result(log, meeting_id) ==
    [NoCall EXCEPT !.handler = "get_logs", !.meeting_id = meeting_id,
                   !.ret = IF truthy(meeting_id)
                           THEN filter_meeting(log, meeting_id)
                           ELSE log,
                   !.status = 200]

get_logs(meeting_id) ==
    /\ last' = get_logs_result(attendance_log, meeting_id)
    /\ UNCHANGED <<attendance_log, ev, th>>

clear_logs_counts_after ==
    /\ Quiescent
    /\ attendance_log' = <<>>
    /\ last' = [NoCall EXCEPT !.handler = "clear_logs",
                              !.ret = Len(attendance_log'), !.status = 200]
    /\ UNCHANGED <<ev, th>>

(* clear_logs: count = len(attendance_log); attendance_log = []. *)
clear_logs ==
    /\ Quiescent
    /\ attendance_log' = <<>>
    /\ last' = [NoCall EXCEPT !.handler = "clear_logs",
                              !.ret = Len(attendance_log), !.status = 200]
    /\ UNCHANGED <<ev, th>>

(* Events that carry their timestamp, handled one at a time. *)
Next ==
    \/ \E meeting_id \in Meetings, user_id \in Users, time \in JoinTimes :
            zoom_webhook(JOINED, meeting_id, user_id, NameOf(user_id), time)
    \/ \E meeting_id \in Meetings, user_id \in Users, time \in LeaveTimes :
            zoom_webhook(LEFT, meeting_id, user_id, NameOf(user_id), time)
    \/ \E meeting_id \in Meetings : report(meeting_id)
    \/ \E meeting_id \in Meetings \cup {None} : get_logs(meeting_id)
    \/ clear_logs

Spec == Init /\ [][Next]_vars

(* ------------------------------------------------------------------ *)
(* Properties                                                         *)
(* ------------------------------------------------------------------ *)

(* Positions of the OPEN records (leave_time absent) of a pair. *)
OpenIdx(log, meeting_id, user_id) ==
    {i \in 1..Len(log) : /\ log[i].meeting_id = meeting_id
                         /\ log[i].user_id = user_id
                         /\ log[i].leave_time = None}

ClosedIdx(log, meeting_id, user_id) ==
    {i \in 1..Len(log) : /\ log[i].meeting_id = meeting_id
                         /\ log[i].user_id = user_id
                         /\ log[i].leave_time # None}

OpenCount(log, meeting_id, user_id) == Cardinality(OpenIdx(log, meeting_id, user_id))

AtMostOne(S) == \A i, j \in S : i = j

Latest(S) == CHOOSE i \in S : \A j \in S : j <= i

(* The step just taken is a call of log_join / log_leave for the pair. *)
JoinStep(meeting_id, user_id) ==
    /\ last'.call = "log_join"
    /\ last'.meeting_id = meeting_id
    /\ last'.user_id = user_id

LeaveStep(meeting_id, user_id) ==
    /\ last'.call = "log_leave"
    /\ last'.meeting_id = meeting_id
    /\ last'.user_id = user_id

(* C1 as stated: in every reachable state each (meeting_id, user_id) pair  *)
(* has at most one OPEN record.                                            *)
C1_AtMostOneOpenPerPair ==
    \A m \in Meetings, u \in Users : AtMostOne(OpenIdx(attendance_log, m, u))

(* C1 amended: a pair with at most one OPEN record keeps at most one       *)
(* through every step except a record_join for that pair issued while it   *)
(* already has an OPEN record; that join appends a further OPEN record.    *)
C1_OnlyJoinOnOpenPairAddsSecondOpen ==
    [][\A m \in Meetings, u \in Users :
         LET before == OpenIdx(attendance_log, m, u)
             after == OpenIdx(attendance_log', m, u)
             joinOnOpen == JoinStep(m, u) /\ before # {}
         IN  AtMostOne(before) =>
                 IF joinOnOpen
                 THEN after = before \cup {Len(attendance_log')} /\ ~AtMostOne(after)
                 ELSE AtMostOne(after)]_vars

(* A join for a pair whose earlier session is closed: one OPEN record. *)
C1_Witness ==
    /\ last.call = "log_join"
    /\ OpenCount(attendance_log, last.meeting_id, last.user_id) = 1
    /\ ClosedIdx(attendance_log, last.meeting_id, last.user_id) # {}

(* C2: a record_leave for a pair that has OPEN records closes the most     *)
(* recently appended of them (leave_time := t, state := CLOSED) and        *)
(* changes nothing else in the store.                                      *)
C2_LeaveClosesLatestOpen ==
    [][\A m \in Meetings, u \in Users :
         (LeaveStep(m, u) /\ OpenIdx(attendance_log, m, u) # {}) =>
             LET i == Latest(OpenIdx(attendance_log, m, u))
             IN  attendance_log' =
                     [attendance_log EXCEPT ![i].leave_time = last'.time,
                                            ![i].event = "left"]]_vars

(* Two joins of one pair, then a leave: the later record is closed and     *)
(* the earlier one is still OPEN.                                          *)
C2_Witness ==
    /\ last.call = "log_leave"
    /\ \E i, j \in 1..Len(attendance_log) :
          /\ i < j
          /\ attendance_log[i].meeting_id = last.meeting_id
          /\ attendance_log[j].meeting_id = last.meeting_id
          /\ attendance_log[i].user_id = last.user_id
          /\ attendance_log[j].user_id = last.user_id
          /\ attendance_log[i].leave_time = None
          /\ attendance_log[j].leave_time = last.time
          /\ attendance_log[j].event = "left"

(* C3: a record_leave for a pair without an OPEN record leaves the store   *)
(* exactly as it was.                                                      *)
C3_UnmatchedLeaveIsNoOp ==
    [][\A m \in Meetings, u \in Users :
         (LeaveStep(m, u) /\ OpenIdx(attendance_log, m, u) = {}) =>
             attendance_log' = attendance_log]_vars

(* A leave for a pair whose only session is already closed. *)
C3_Witness ==
    /\ last.call = "log_leave"
    /\ "WARN_NO_MATCHING_JOIN" \in last.printed
    /\ ClosedIdx(attendance_log, last.meeting_id, last.user_id) # {}
    /\ OpenIdx(attendance_log, last.meeting_id, last.user_id) = {}

C5_LeaveTimeImmutable ==
    [][last'.handler # "clear_logs" =>
         \A i \in 1..Len(attendance_log) :
             attendance_log[i].leave_time # None =>
                 /\ i <= Len(attendance_log')
                 /\ attendance_log'[i].leave_time = attendance_log[i].leave_time
                 /\ attendance_log'[i].event = "left"]_vars

(* A further leave for the pair of a closed record, with another time. *)
C5_Witness ==
    /\ last.call = "log_leave"
    /\ \E i \in ClosedIdx(attendance_log, last.meeting_id, last.user_id) :
          attendance_log[i].leave_time # last.time

(* C6: every step that is not a clear keeps each record at its position    *)
(* with its meeting_id, user_id, user_name and join_time; a clear empties  *)
(* the store.                                                              *)
C6_AppendOnlyBetweenClears ==
    [][IF last'.handler = "clear_logs"
       THEN attendance_log' = <<>>
       ELSE /\ Len(attendance_log') >= Len(attendance_log)
            /\ \A i \in 1..Len(attendance_log) :
                  /\ attendance_log'[i].meeting_id = attendance_log[i].meeting_id
                  /\ attendance_log'[i].user_id = attendance_log[i].user_id
                  /\ attendance_log'[i].user_name = attendance_log[i].user_name
                  /\ attendance_log'[i].join_time = attendance_log[i].join_time]_vars

(* A join appended behind records of other pairs. *)
C6_Witness ==
    /\ last.call = "log_join"
    /\ Len(attendance_log) = MaxLog
    /\ attendance_log[1].meeting_id # last.meeting_id
    /\ attendance_log[2].user_id # last.user_id

(* C7: record_join appends one record at the end, OPEN, without            *)
(* leave_time, with the given fields; only record_join lengthens the       *)
(* store.                                                                  *)
C7_JoinAppendsOneOpenRecord ==
    [][/\ last'.call = "log_join" =>
            /\ Len(attendance_log') = Len(attendance_log) + 1
            /\ SubSeq(attendance_log', 1, Len(attendance_log)) = attendance_log
            /\ LET e == attendance_log'[Len(attendance_log')]
               IN  /\ e.event = "joined"
                   /\ e.leave_time = None
                   /\ e.meeting_id = last'.meeting_id
                   /\ e.user_id = last'.user_id
                   /\ e.user_name = last'.user_name
                   /\ e.join_time = last'.time
       /\ Len(attendance_log') > Len(attendance_log) => last'.call = "log_join"]_vars

(* A join just appended behind an earlier record. *)
C7_Witness ==
    /\ last.call = "log_join"
    /\ Len(attendance_log) >= 2
    /\ attendance_log[Len(attendance_log)].leave_time = None
    /\ attendance_log[Len(attendance_log)].user_id = last.user_id

(* C10 as stated: no operation raises, whatever the timestamps: every      *)
(* call of record_leave and of report completes normally.                  *)
C10_NoOperationRaises ==
    last.raised = "none" /\ last.status # 500

(* ------------------------------------------------------------------ *)
(* Handlers, statement by statement, without a lock                   *)
(* ------------------------------------------------------------------ *)

(* ev: the webhook handler running on the event loop (at most one: the     *)
(*     handler does not await between its first statement and its last).   *)
(*     ev.stale: the list object the handler has loaded is no longer the   *)
(*     one the global attendance_log names (clear_logs rebound the name),  *)
(*     so what the handler writes is written to the dropped list.          *)
(* th: clear_logs running on a worker thread, between its two statements.  *)

(* log_join, lines 30-38: the entry is built. *)
join_begin(meeting_id, user_id, user_name, join_time) ==
    /\ ev = Idle
    /\ Len(attendance_log) < MaxLogConc
    /\ ev' = [pc |-> "join_load", meeting_id |-> meeting_id, user_id |-> user_id,
              user_name |-> user_name, time |-> join_time, i |-> 0,
              join_time |-> join_time, stale |-> FALSE]
    /\ UNCHANGED <<attendance_log, last, th>>

(* line 39, first half: the global attendance_log is loaded. *)
join_load ==
    /\ ev.pc = "join_load"
    /\ ev' = [ev EXCEPT !.pc = "join_append", !.stale = FALSE]
    /\ UNCHANGED <<attendance_log, last, th>>

(* line 39, second half: append on the list that was loaded; line 40. *)
join_append ==
    /\ ev.pc = "join_append"
    /\ LET r == log_join(attendance_log, ev.meeting_id, ev.user_id,
                         ev.user_name, ev.time)
       IN  /\ attendance_log' = IF ev.stale THEN attendance_log ELSE r.log
           /\ last' = [NoCall EXCEPT !.handler = "zoom_webhook", !.event = JOINED,
                          !.call = "log_join", !.meeting_id = ev.meeting_id,
                          !.user_id = ev.user_id, !.user_name = ev.user_name,
                          !.time = ev.time, !.printed = r.printed,
                          !.status = 200]
    /\ ev' = Idle
    /\ UNCHANGED th

(* log_leave, lines 45-49: the list is loaded and scanned backwards. When  *)
(* nothing matches, line 59 prints the warning and the handler returns.    *)
leave_scan(meeting_id, user_id, user_name, leave_time) ==
    /\ ev = Idle
    /\ LET i == reversed_scan(attendance_log, Len(attendance_log),
                              meeting_id, user_id)
       IN  IF i = 0
           THEN /\ last' = webhook_dispatch(attendance_log, LEFT, meeting_id,
                                            user_id, user_name, leave_time).last
                /\ ev' = Idle
           ELSE /\ ev' = [pc |-> "leave_set_time", meeting_id |-> meeting_id,
                          user_id |-> user_id, user_name |-> user_name,
                          time |-> leave_time, i |-> i,
                          join_time |-> attendance_log[i].join_time,
                          stale |-> FALSE]
                /\ last' = last
    /\ UNCHANGED <<attendance_log, th>>

(* line 51: entry["leave_time"] = leave_time *)
leave_set_time ==
    /\ ev.pc = "leave_set_time"
    /\ attendance_log' = IF ev.stale THEN attendance_log
                         ELSE [attendance_log EXCEPT ![ev.i].leave_time = ev.time]
    /\ ev' = [ev EXCEPT !.pc = "leave_set_event"]
    /\ UNCHANGED <<last, th>>

(* line 52: entry["event"] = "left" *)
leave_set_event ==
    /\ ev.pc = "leave_set_event"
    /\ attendance_log' = IF ev.stale THEN attendance_log
                         ELSE [attendance_log EXCEPT ![ev.i].event = "left"]
    /\ ev' = [ev EXCEPT !.pc = "leave_duration"]
    /\ UNCHANGED <<last, th>>

(* lines 54-57: the duration, the two prints, return. *)
leave_duration ==
    /\ ev.pc = "leave_duration"
    /\ LET d == calculate_duration(ev.join_time, ev.time)
       IN  last' = [NoCall EXCEPT !.handler = "zoom_webhook", !.event = LEFT,
                       !.call = "log_leave", !.meeting_id = ev.meeting_id,
                       !.user_id = ev.user_id, !.user_name = ev.user_name,
                       !.time = ev.time,
                       !.printed = IF d.raised = "none"
                                   THEN {"LEAVE", "DURATION"} ELSE {},
                       !.raised = d.raised,
                       !.status = IF d.raised = "none" THEN 200 ELSE 500]
    /\ ev' = Idle
    /\ UNCHANGED <<attendance_log, th>>

(* clear_logs, line 200: count = len(attendance_log) *)
clear_count ==
    /\ th = Idle
    /\ th' = [pc |-> "clear_assign", count |-> Len(attendance_log)]
    /\ UNCHANGED <<attendance_log, last, ev>>

(* clear_logs, lines 201-203: attendance_log = [] and the answer. A        *)
(* handler that has loaded the old list keeps writing to it.               *)
clear_assign ==
    /\ th # Idle
    /\ th.pc = "clear_assign"
    /\ attendance_log' = <<>>
    /\ ev' = IF ev # Idle /\ ev.pc # "join_load"
             THEN [ev EXCEPT !.stale = TRUE] ELSE ev
    /\ last' = [NoCall EXCEPT !.handler = "clear_logs", !.ret = th.count,
                              !.status = 200]
    /\ th' = Idle

NextConc ==
    \/ \E meeting_id \in Meetings, user_id \in Users, time \in JoinTimes :
            join_begin(meeting_id, user_id, NameOf(user_id), time)
    \/ join_load
    \/ join_append
    \/ \E meeting_id \in Meetings, user_id \in Users, time \in LeaveTimes :
            leave_scan(meeting_id, user_id, NameOf(user_id), time)
    \/ leave_set_time
    \/ leave_set_event
    \/ leave_duration
    \/ clear_count
    \/ clear_assign
    \/ \E meeting_id \in Meetings : report(meeting_id)
    \/ \E meeting_id \in Meetings \cup {None} : get_logs(meeting_id)

SpecConc == Init /\ [][NextConc]_vars

(* C8 as stated: clear is atomic with respect to an in-flight join: the    *)
(* count clear returns is the number of records its assignment removes,    *)
(* and a join that completes has put its record into the store.            *)
C8_ClearAtomicWithJoin ==
    [][/\ (th # Idle /\ th' = Idle) => th.count = Len(attendance_log)
       /\ (ev.pc = "join_append" /\ ev' = Idle) =>
              /\ Len(attendance_log') = Len(attendance_log) + 1
              /\ attendance_log'[Len(attendance_log')].user_id = ev.user_id]_vars

(* C9 as stated: in every state a reader can run in, a record's state is   *)
(* CLOSED ("left") exactly when its leave_time is set.                     *)
C9_StateFlagMatchesLeaveTime ==
    \A i \in 1..Len(attendance_log) :
        attendance_log[i].event = "left" <=> attendance_log[i].leave_time # None

(* ------------------------------------------------------------------ *)
(* zoom_webhook on whole request bodies                               *)
(* ------------------------------------------------------------------ *)

URL_VALIDATION == "endpoint.url_validation"

(* A request body: event, payload.plainToken, whether payload.object is    *)
(* there (and not empty), payload.object.id, and participant.user_id,      *)
(* .id, .user_name and .join_time / .leave_time; None for a missing key.   *)
Body(event, plain_token, has_object, id, user_id, alt_id, user_name, time) ==
    [event |-> event, plain_token |-> plain_token, has_object |-> has_object,
     id |-> id, user_id |-> user_id, alt_id |-> alt_id,
     user_name |-> user_name, time |-> time]

(* Whom an event is about: (object.id, user_id, participant.id, name). *)
Subjects ==
    { <<"M1", "U1", None, "Alice">>,
      <<"M1", "U1", None, "Bob">>,
      <<"", "U1", None, "Alice">>,
      <<"M1", None, "U2", None>>,
      <<None, None, None, None>> }

TimedBodies ==
    { Body(e, None, TRUE, s[1], s[2], s[3], s[4], t) :
        e \in {JOINED}, s \in Subjects, t \in JoinTimes }
    \cup { Body(e, None, TRUE, s[1], s[2], s[3], s[4], t) :
        e \in {LEFT}, s \in Subjects, t \in {T1030Z} }
    \cup { Body(LEFT, None, TRUE, "M1", "U1", None, "Alice", T1030Naive) }

(* Events without their timestamp (missing, or empty), and events of       *)
(* another type, with or without a timestamp.                              *)
UntimedBodies ==
    { Body(e, None, TRUE, "M1", "U1", None, "Alice", t) :
        e \in {JOINED, LEFT}, t \in {None, ""} }
    \cup { Body(STARTED, None, TRUE, "M1", "U1", None, "Alice", t) :
        t \in {None, T1030Z} }

OtherBodies ==
    { Body(URL_VALIDATION, tok, FALSE, None, None, None, None, None) :
        tok \in {"plain", None} }
    \cup { Body(JOINED, None, FALSE, None, None, None, None, None) }

(* Python's "x or y". *)
py_or(x, y) == IF truthy(x) THEN x ELSE y

(* Lines 120-123: meeting_id, user_id and user_name with their defaults. *)
extract(body) ==
    [meeting_id |-> IF body.id = None THEN "unknown" ELSE body.id,
     user_id |-> py_or(body.user_id, py_or(body.alt_id, "unknown")),
     user_name |-> IF body.user_name = None THEN "Unknown User"
                   ELSE body.user_name]

(* zoom_webhook(request) on a parsed body. The HTTPException(400) raised   *)
(* for a missing plainToken or a missing payload object is raised inside   *)
(* the try block, so "except Exception" turns it into status 500.          *)
webhook_body(log, body) ==
    LET x == extract(body)
        base == [NoCall EXCEPT !.handler = "zoom_webhook", !.event = body.event]
    IN  IF body.event = URL_VALIDATION
        THEN [log |-> log,
              last |-> IF truthy(body.plain_token)
                       THEN [base EXCEPT !.ret = body.plain_token, !.status = 200]
                       ELSE [base EXCEPT !.raised = "HTTPException", !.status = 500]]
        ELSE IF ~body.has_object
        THEN [log |-> log,
              last |-> [base EXCEPT !.raised = "HTTPException", !.status = 500]]
        ELSE webhook_dispatch(log, body.event, x.meeting_id, x.user_id,
                              x.user_name, body.time)

zoom_webhook_body(body) ==
    /\ Quiescent
    /\ (body.event = JOINED /\ body.has_object /\ truthy(body.time))
           => Len(attendance_log) < MaxLogHook
    /\ LET r == webhook_body(attendance_log, body)
       IN  /\ attendance_log' = r.log
           /\ last' = r.last
    /\ UNCHANGED <<ev, th>>

HookMeetings == {"M1", "", "unknown"}

NextHook ==
    \/ \E body \in TimedBodies : zoom_webhook_body(body)
    \/ \E body \in UntimedBodies : zoom_webhook_body(body)
    \/ \E body \in OtherBodies : zoom_webhook_body(body)
    \/ \E meeting_id \in HookMeetings : report(meeting_id)
    \/ \E meeting_id \in {"M1", "", None} : get_logs(meeting_id)
    \/ clear_logs

SpecHook == Init /\ [][NextHook]_vars

(* ------------------------------------------------------------------ *)
(* Properties of the aggregation                                      *)
(* ------------------------------------------------------------------ *)

Earliest(S) == CHOOSE i \in S : \A j \in S : i <= j

(* The user_ids that occur in the store. *)
UsersIn(log) == {log[i].user_id : i \in 1..Len(log)}

(* Minutes since midnight that a timestamp of the model denotes. *)
MinuteOf(ts) ==
    CASE ts = T1000Z -> 600
      [] ts = T1030Z -> 630
      [] ts = T1030Naive -> 630

RECURSIVE SumMinutes(_, _)
SumMinutes(log, S) ==
    IF S = {} THEN 0
    ELSE LET i == CHOOSE x \in S : TRUE
         IN  (MinuteOf(log[i].leave_time) - MinuteOf(log[i].join_time))
                 + SumMinutes(log, S \ {i})

(* The report the last step returned, as a set (empty when the last step   *)
(* was no report or the report raised).                                    *)
Returned == IF last.handler = "report"
            THEN {last.ret[k] : k \in 1..Len(last.ret)} ELSE {}

Rows(rep) == {rep.attendance[k] : k \in 1..Len(rep.attendance)}

(* C11 as stated: for every store, report(m) gives as participant_count    *)
(* the number of user_ids with at least one CLOSED record in m.            *)
C11_ParticipantCountIsClosedUsers ==
    last.handler = "report" =>
        /\ Returned # {}
        /\ \A rep \in Returned :
              rep.total_participants =
                  Cardinality({u \in UsersIn(attendance_log) :
                      ClosedIdx(attendance_log, last.meeting_id, u) # {}})

(* C12 as stated: for every user with a CLOSED record in m, report(m) has  *)
(* a row whose session_count is the number of those records and whose      *)
(* total_minutes is the sum of their durations.                            *)
C12_RowCountsAndSumsClosedSessions ==
    last.handler = "report" =>
        \A u \in UsersIn(attendance_log) :
            LET S == ClosedIdx(attendance_log, last.meeting_id, u)
            IN  S # {} =>
                    \E rep \in Returned : \E row \in Rows(rep) :
                        /\ row.user_id = u
                        /\ row.sessions = Cardinality(S)
                        /\ row.total_minutes = SumMinutes(attendance_log, S)

(* C13 as stated: the user_name of a row is the name of the last           *)
(* (most recently appended) CLOSED record of that user in the meeting.     *)
C13_NameOfLastSession ==
    \A rep \in Returned : \A row \in Rows(rep) :
        LET S == ClosedIdx(attendance_log, last.meeting_id, row.user_id)
        IN  S # {} /\ row.user_name = attendance_log[Latest(S)].user_name

(* C13 amended: in every report that is returned, the user_name of a row   *)
(* is the name of the first (earliest appended) CLOSED record of that      *)
(* user in the meeting.                                                    *)
C13_NameOfFirstSession ==
    \A rep \in Returned : \A row \in Rows(rep) :
        LET S == ClosedIdx(attendance_log, last.meeting_id, row.user_id)
        IN  S # {} /\ row.user_name = attendance_log[Earliest(S)].user_name

(* A report with a row for a user whose two sessions carry two names. *)
C13_Witness ==
    \E rep \in Returned : \E row \in Rows(rep) :
        LET S == ClosedIdx(attendance_log, last.meeting_id, row.user_id)
        IN  /\ row.sessions = 2
            /\ attendance_log[Earliest(S)].user_name
                   # attendance_log[Latest(S)].user_name

(* C17 as stated: for two well-formed timestamps calculate_duration gives  *)
(* leave_time minus join_time in minutes, negative or not.                 *)
C17_DurationIsDifference ==
    \A i \in 1..Len(attendance_log) :
        LET e == attendance_log[i]
            wellFormed(ts) == fromisoformat(replace_Z(ts)).raised = "none"
        IN  (e.leave_time # None /\ wellFormed(e.join_time)
                /\ wellFormed(e.leave_time)) =>
                LET d == calculate_duration(e.join_time, e.leave_time)
                IN  /\ d.raised = "none"
                    /\ d.value = MinuteOf(e.leave_time) - MinuteOf(e.join_time)

(* ------------------------------------------------------------------ *)
(* Properties of the endpoints                                        *)
(* ------------------------------------------------------------------ *)

(* C14: a clear returns the number of records the store held and leaves    *)
(* the store empty: get_logs without a meeting_id then returns nothing     *)
(* and every report has total_participants 0.                              *)
C14_ClearEmptiesAndCounts ==
    [][last'.handler = "clear_logs" =>
         /\ last'.ret = Len(attendance_log)
         /\ attendance_log' = <<>>
         /\ get_logs_result(attendance_log', None).ret = <<>>
         /\ \A m \in HookMeetings :
               LET r == report_result(attendance_log', m)
               IN  /\ Len(r.ret) = 1
                   /\ r.ret[1].total_participants = 0
                   /\ r.ret[1].attendance = <<>>]_vars

(* A clear of a store that held two records. *)
C14_Witness ==
    /\ last.handler = "clear_logs"
    /\ last.ret >= 2
    /\ attendance_log = <<>>

(* C15: a participant_joined / participant_left event whose timestamp is   *)
(* missing (or empty), and an event of any other type, calls neither       *)
(* log_join nor log_leave and leaves the store as it was.                  *)
C15_UntimedEventsNeverReachCore ==
    [][(/\ last'.handler = "zoom_webhook"
        /\ \/ last'.event \notin {JOINED, LEFT}
           \/ last'.time \in {None, ""}) =>
            /\ attendance_log' = attendance_log
            /\ last'.call = "none"]_vars

(* A leave without leave_time for a participant whose session is OPEN. *)
C15_Witness ==
    /\ last.handler = "zoom_webhook"
    /\ last.event = LEFT
    /\ last.time = ""
    /\ OpenIdx(attendance_log, last.meeting_id, last.user_id) # {}

(* C16 as stated: get_logs(meeting_id) returns the records of that         *)
(* meeting_id in store order, for every meeting_id value given, and all    *)
(* records when none is given.                                             *)
C16_GetLogsFiltersByMeeting ==
    last.handler = "get_logs" =>
        LET ofMeeting(e) == e.meeting_id = last.meeting_id
        IN  last.ret = IF last.meeting_id = None THEN attendance_log
                       ELSE SelectSeq(attendance_log, ofMeeting)

(* ------------------------------------------------------------------ *)
(* Counting, dropped leaves, isolation between keys                   *)
(* ------------------------------------------------------------------ *)

Unmatched(l) == "WARN_NO_MATCHING_JOIN" \in l.printed

(* C18: per (meeting_id, user_id), every step keeps the count: a clear     *)
(* empties both sets; a join adds one OPEN record; a leave is matched      *)
(* exactly when the pair has an OPEN record, and then moves one record     *)
(* from OPEN to CLOSED; every other step (an unmatched leave, a step for   *)
(* another pair, a read) leaves both sets as they are.  From the empty     *)
(* store this gives CLOSED = matched leaves and OPEN = joins - matched     *)
(* leaves.                                                                 *)
C18_CountsFollowJoinsAndMatchedLeaves ==
    [][\A m \in Meetings, u \in Users :
         LET open == OpenIdx(attendance_log, m, u)
             closed == ClosedIdx(attendance_log, m, u)
             open2 == OpenIdx(attendance_log', m, u)
             closed2 == ClosedIdx(attendance_log', m, u)
         IN  IF last'.handler = "clear_logs"
             THEN open2 = {} /\ closed2 = {}
             ELSE IF JoinStep(m, u)
             THEN /\ Len(attendance_log') = Len(attendance_log) + 1
                  /\ open2 = open \cup {Len(attendance_log')}
                  /\ closed2 = closed
             ELSE IF LeaveStep(m, u)
             THEN /\ Unmatched(last') <=> open = {}
                  /\ IF open = {}
                     THEN open2 = open /\ closed2 = closed
                     ELSE \E i \in open : /\ open2 = open \ {i}
                                          /\ closed2 = closed \cup {i}
             ELSE open2 = open /\ closed2 = closed]_vars

(* A pair with two joins and one matched leave: one OPEN, one CLOSED. *)
C18_Witness ==
    /\ last.call = "log_leave"
    /\ ~Unmatched(last)
    /\ OpenCount(attendance_log, last.meeting_id, last.user_id) = 1
    /\ Cardinality(ClosedIdx(attendance_log, last.meeting_id, last.user_id)) = 1

(* C19: a leave that finds no OPEN record leaves no trace: the store is    *)
(* unchanged by it; the join of the same pair right after it appends a     *)
(* record that is OPEN (the dropped leave_time is not applied) and that    *)
(* changes no report; and an OPEN record stays OPEN through every step     *)
(* that is neither a leave for its own pair nor a clear.                   *)
C19_DroppedLeaveNeverApplied ==
    [][/\ \A m \in Meetings, u \in Users :
            /\ (LeaveStep(m, u) /\ OpenIdx(attendance_log, m, u) = {}) =>
                   attendance_log' = attendance_log
            /\ (/\ last.call = "log_leave" /\ Unmatched(last)
                /\ last.meeting_id = m /\ last.user_id = u
                /\ JoinStep(m, u)) =>
                   /\ Len(attendance_log') = Len(attendance_log) + 1
                   /\ SubSeq(attendance_log', 1, Len(attendance_log)) = attendance_log
                   /\ attendance_log'[Len(attendance_log')].leave_time = None
                   /\ attendance_log'[Len(attendance_log')].event = "joined"
                   /\ \A m2 \in Meetings :
                         calculate_durations(attendance_log', m2)
                             = calculate_durations(attendance_log, m2)
       /\ \A i \in 1..Len(attendance_log) :
            (/\ attendance_log[i].leave_time = None
             /\ last'.handler # "clear_logs"
             /\ ~LeaveStep(attendance_log[i].meeting_id, attendance_log[i].user_id)) =>
                /\ i <= Len(attendance_log')
                /\ attendance_log'[i] = attendance_log[i]]_vars

(* A leave that arrived before any join of its pair, with the OPEN record  *)
(* of another participant of the same meeting in the store.                *)
C19_Witness ==
    /\ last.call = "log_leave"
    /\ Unmatched(last)
    /\ OpenIdx(attendance_log, last.meeting_id, last.user_id) = {}
    /\ ClosedIdx(attendance_log, last.meeting_id, last.user_id) = {}
    /\ \E i \in 1..Len(attendance_log) :
          /\ attendance_log[i].meeting_id = last.meeting_id
          /\ attendance_log[i].leave_time = None

(* The records of one meeting, in store order. *)
OfMeeting(log, m) ==
    LET inMeeting(e) == e.meeting_id = m IN SelectSeq(log, inMeeting)

(* C20: a join or leave for (m, u) changes no record of another meeting    *)
(* or another user, and report(m) is the report of the records of m        *)
(* alone (so stores that agree on the records of m give the same           *)
(* report(m)).                                                             *)
C20_KeysAreIsolated ==
    [][/\ \A i \in 1..Len(attendance_log) :
            (/\ last'.call \in {"log_join", "log_leave"}
             /\ \/ attendance_log[i].meeting_id # last'.meeting_id
                \/ attendance_log[i].user_id # last'.user_id) =>
                /\ i <= Len(attendance_log')
                /\ attendance_log'[i] = attendance_log[i]
       /\ \A m \in Meetings :
            report_result(attendance_log', m)
                = report_result(OfMeeting(attendance_log', m), m)]_vars

(* A matched leave for (m, u) with an OPEN record of the same user in      *)
(* another meeting and one of another user in the same meeting.            *)
C20_Witness ==
    /\ last.call = "log_leave"
    /\ ~Unmatched(last)
    /\ \E i, j \in 1..Len(attendance_log) :
          /\ attendance_log[i].meeting_id = last.meeting_id
          /\ attendance_log[i].user_id # last.user_id
          /\ attendance_log[i].leave_time = None
          /\ attendance_log[j].meeting_id # last.meeting_id
          /\ attendance_log[j].user_id = last.user_id
          /\ attendance_log[j].leave_time = None

====
